---- MODULE Spec2Model ----
(***************************************************************************)
(* Model of the uniswap-python client (src/uniswap/uniswap.py, the         *)
(* Uniswap4Core transaction helpers of src/uniswap/uniswap4.py and the     *)
(* check_approval decorator of src/uniswap/decorators.py).                 *)
(*                                                                         *)
(* Amounts are small integers.  A slippage is a whole number of percent,   *)
(* so Python's int((1 - slippage) * x) is Trunc((100 - s) * x, 100): the   *)
(* float product is modelled by the exact rational, int() by truncation    *)
(* toward zero.  The blockchain node is the environment: its answers to    *)
(* read calls (balances, quotes, reserves) are drawn when they are read,   *)
(* its transaction count and pool of pending transactions are state.       *)
(***************************************************************************)
EXTENDS Integers, Sequences, FiniteSets, TLC

\* ------------------------------------------------------------------ bounds
MaxNonce == 2
\* the largest integer fee validate_fee_tier is tried on
MaxFeeInput == 10001

\* ------------------------------------------------------- inputs and values
Threads == {"t1", "t2"}
MainThread == "t1"

ETH_ADDRESS == "ETH"
WETH == "WETH"
ERC20 == {"WETH", "DAI", "USDC"}
Tokens == ERC20 \cup {ETH_ADDRESS}
Versions == {1, 2, 3}

default_slippage == 1

Qtys == {1}
\* an absent slippage argument is {}, a given one {percent}
SlippageArgs == {{}, {50}}
Balances == {0, 3}
Quotes == {1, 3}
Reserves == {0, 1, 4}

Methods == {"make_trade", "make_trade_output"}

\* the other methods under @check_approval, both @supports([1])
LiquidityMethods == {"add_liquidity", "remove_liquidity"}

\* the three topologies, with and without the wrapped native token as an
\* endpoint, and calls with the same token on both sides
Pairs ==
    {<<ETH_ADDRESS, "DAI">>, <<"DAI", ETH_ADDRESS>>, <<"DAI", "USDC">>,
     <<"DAI", WETH>>, <<WETH, "DAI">>, <<"DAI", "DAI">>,
     <<ETH_ADDRESS, ETH_ADDRESS>>}

TradeOps ==
    {o \in [method : Methods, input_token : Tokens, output_token : Tokens,
            qty : Qtys, slippage : SlippageArgs] :
        <<o.input_token, o.output_token>> \in Pairs}

\* add_liquidity(token, max_eth) and remove_liquidity(token, max_token):
\* input_token is the token, qty the amount, the other fields are unused
LiquidityOps ==
    [method : LiquidityMethods, input_token : {"DAI"},
     output_token : {ETH_ADDRESS}, qty : Qtys, slippage : {{}}]

AllOps == TradeOps \cup LiquidityOps

\* the calls of the concurrent specification: one of each topology
FewOps ==
    {o \in TradeOps :
        /\ o.slippage = {}
        /\ <<o.input_token, o.output_token>> \in
             {<<ETH_ADDRESS, "DAI">>, <<"DAI", ETH_ADDRESS>>, <<"DAI", "DAI">>}}

NoOp ==
    [method |-> "none", input_token |-> ETH_ADDRESS, output_token |-> ETH_ADDRESS,
     qty |-> 0, slippage |-> {}]

\* ----------------------------------------------------------------- helpers
Max(a, b) == IF a >= b THEN a ELSE b

Abs(n) == IF n >= 0 THEN n ELSE 0 - n

\* Python's int(n / d) for d # 0: the quotient truncated toward zero
Trunc(n, d) ==
    IF (n >= 0) = (d > 0) \/ n = 0
    THEN Abs(n) \div Abs(d)
    ELSE 0 - (Abs(n) \div Abs(d))

\* ------------------------------------------------- results of a trade body
\* A trade body ends with an exception (err # "") or with the contract call
\* it hands to _build_and_send_tx.  net: a node call was made on the way.
\* guard: the slippage bound among the call's arguments (-1: none), aux: the
\* second bound of a v1 token-to-token call, value: the ETH attached,
\* quoted: the node's quote for the pair and amount when the call was built.
Raise(e, net) ==
    [err |-> e, net |-> net, fn |-> "none", guard |-> 0 - 1, aux |-> 0 - 1,
     value |-> 0, path |-> << >>, quoted |-> 0 - 1]

Call(fn, guard, aux, value, path, quoted) ==
    [err |-> "", net |-> TRUE, fn |-> fn, guard |-> guard, aux |-> aux,
     value |-> value, path |-> path, quoted |-> quoted]

\* int((1 - slippage) * price)
amount_out_min(slippage, price) == Trunc((100 - slippage) * price, 100)

\* the quoted cost itself, without the slippage margin
amount_in_max_cost_only(slippage, cost) == cost

\* int((1 + slippage) * cost)
amount_in_max(slippage, cost) == Trunc((100 + slippage) * cost, 100)

\* The node's answers to the read calls of one trade body:
\*   balance            the sender's balance of the input token (or of ETH)
\*   price              the quote of the router, quoter or v1 exchange
\*   need               the quote make_trade_output asks for before the swap
\*   ex_token, ex_eth   the token and ETH reserves of a token's v1 exchange
NodeReads(o) ==
    [balance : Balances, price : Quotes, need : Quotes,
     ex_token : [{o.input_token, o.output_token} -> Reserves],
     ex_eth : [{o.input_token, o.output_token} -> Reserves]]

\* _calculate_max_output_token(self, output_token, qty, input_token):
\* <<int(outputAmountB), int(1.2 * outputAmountA)>>, or ZeroDivisionError
calculate_max_output_token(output_token, qty, input_token, n) ==
    LET inputReserveA == n.ex_token[input_token]
        outputReserveA == n.ex_eth[input_token]
        numeratorA == qty * outputReserveA * 997
        denominatorA == inputReserveA * 1000 + qty * 997
        \* outputAmountA = numeratorA / denominatorA, kept as a fraction
        inputReserveB == n.ex_token[output_token]
        outputReserveB == n.ex_eth[output_token]
        \* numeratorB / denominatorB with both sides scaled by denominatorA
        numeratorB == numeratorA * outputReserveB * 997
        denominatorB == inputReserveB * 1000 * denominatorA + numeratorA * 997
    IN  IF denominatorA = 0 \/ denominatorB = 0
        THEN [err |-> "ZeroDivisionError", tokens |-> 0, eth |-> 0]
        ELSE [err |-> "",
              tokens |-> Trunc(numeratorB, denominatorB),
              eth |-> Trunc(12 * numeratorA, 10 * denominatorA)]

\* _eth_to_token_swap_input
eth_to_token_swap_input(v, output_token, qty, slippage, n) ==
    IF output_token = ETH_ADDRESS THEN Raise("ValueError", FALSE)
    ELSE IF qty > n.balance THEN Raise("InsufficientBalance", TRUE)
    ELSE IF v = 1
    THEN \* func_params = [qty, deadline]: qty is in the min_tokens position
         Call("ethToTokenSwapInput", qty, 0 - 1, qty, << >>, n.price)
    ELSE IF v = 2
    THEN Call("swapExactETHForTokens", amount_out_min(slippage, n.price), 0 - 1,
              qty, <<WETH, output_token>>, n.price)
    ELSE Call("exactInputSingle", amount_out_min(slippage, n.price), 0 - 1,
              qty, <<WETH, output_token>>, n.price)

\* _token_to_eth_swap_input
token_to_eth_swap_input(v, input_token, qty, slippage, n) ==
    IF input_token = ETH_ADDRESS THEN Raise("ValueError", FALSE)
    ELSE IF qty > n.balance THEN Raise("InsufficientBalance", TRUE)
    ELSE IF v = 1
    THEN \* func_params = [qty, 1, deadline]
         Call("tokenToEthSwapInput", 1, 0 - 1, 0, << >>, n.price)
    ELSE IF v = 2
    THEN Call("swapExactTokensForETH", amount_out_min(slippage, n.price), 0 - 1,
              0, <<input_token, WETH>>, n.price)
    ELSE \* multicall([exactInputSingle(.., min_tokens_bought, 0), unwrapWETH9])
         Call("multicall_exactInputSingle_unwrapWETH9",
              amount_out_min(slippage, n.price), 0 - 1,
              0, <<input_token, WETH>>, n.price)

\* _token_to_token_swap_input
token_to_token_swap_input(v, input_token, output_token, qty, slippage, n) ==
    IF qty > n.balance THEN Raise("InsufficientBalance", TRUE)
    ELSE IF input_token = ETH_ADDRESS \/ output_token = ETH_ADDRESS
    THEN Raise("ValueError", TRUE)
    ELSE IF v = 1
    THEN LET m == calculate_max_output_token(input_token, qty, output_token, n)
         IN  IF m.err # "" THEN Raise(m.err, TRUE)
             ELSE \* recipient was set to self.address: the Transfer variant
                  Call("tokenToTokenTransferInput", m.tokens, m.eth, 0,
                       << >>, n.price)
    ELSE IF v = 2
    THEN Call("swapExactTokensForTokens", amount_out_min(slippage, n.price),
              0 - 1, 0, <<input_token, WETH, output_token>>, n.price)
    ELSE Call("exactInputSingle", amount_out_min(slippage, n.price), 0 - 1,
              0, <<input_token, output_token>>, n.price)

\* _eth_to_token_swap_output
eth_to_token_swap_output(v, output_token, qty, slippage, n) ==
    IF output_token = ETH_ADDRESS THEN Raise("ValueError", FALSE)
    ELSE IF amount_in_max(slippage, n.price) > n.balance
    THEN Raise("InsufficientBalance", TRUE)
    ELSE IF v = 1
    THEN \* eth_qty = self._get_eth_token_output_price(output_token, qty)
         Call("ethToTokenSwapOutput", 0 - 1, 0 - 1, n.price, << >>, n.price)
    ELSE IF v = 2
    THEN Call("swapETHForExactTokens", 0 - 1, 0 - 1,
              amount_in_max(slippage, n.price), <<WETH, output_token>>, n.price)
    ELSE \* multicall([exactOutputSingle(.., amount_in_max, 0), refundETH])
         Call("multicall_exactOutputSingle_refundETH",
              amount_in_max(slippage, n.price), 0 - 1,
              amount_in_max(slippage, n.price), <<WETH, output_token>>, n.price)

\* _token_to_eth_swap_output
token_to_eth_swap_output(v, input_token, qty, slippage, n) ==
    IF input_token = ETH_ADDRESS THEN Raise("ValueError", FALSE)
    ELSE IF amount_in_max(slippage, n.price) > n.balance
    THEN Raise("InsufficientBalance", TRUE)
    ELSE IF v = 1
    THEN LET inputReserve == n.ex_token[input_token]
             outputReserve == n.ex_eth[input_token]
             numerator == qty * inputReserve * 1000
             denominator == (outputReserve - qty) * 997
         IN  IF denominator = 0 THEN Raise("ZeroDivisionError", TRUE)
             ELSE \* inputAmount = numerator / denominator + 1
                  \* max_tokens = int((1 + slippage) * inputAmount)
                  Call("tokenToEthSwapOutput",
                       Trunc((100 + slippage) * (numerator + denominator),
                             100 * denominator),
                       0 - 1, 0, << >>, n.price)
    ELSE IF v = 2
    THEN Call("swapTokensForExactETH", amount_in_max(slippage, n.price), 0 - 1,
              0, <<input_token, WETH>>, n.price)
    ELSE \* multicall([exactOutputSingle(.., amount_in_max, 0), unwrapWETH9])
         Call("multicall_exactOutputSingle_unwrapWETH9",
              amount_in_max(slippage, n.price), 0 - 1,
              0, <<input_token, WETH>>, n.price)

\* _token_to_token_swap_output
token_to_token_swap_output(v, input_token, output_token, qty, slippage, n) ==
    IF input_token = ETH_ADDRESS \/ output_token = ETH_ADDRESS
    THEN Raise("ValueError", FALSE)
    ELSE IF v = 1
    THEN \* _get_token_token_output_price is @supports([2, 3])
         Raise("Exception", TRUE)
    ELSE IF amount_in_max(slippage, n.price) > n.balance
    THEN Raise("InsufficientBalance", TRUE)
    ELSE IF v = 2
    THEN Call("swapTokensForExactTokens", amount_in_max(slippage, n.price),
              0 - 1, 0, <<input_token, WETH, output_token>>, n.price)
    ELSE Call("exactOutputSingle", amount_in_max(slippage, n.price), 0 - 1,
              0, <<input_token, output_token>>, n.price)

\* slippage = self.default_slippage if slippage is None
Slippage(o) ==
    IF o.slippage = {} THEN default_slippage ELSE CHOOSE s \in o.slippage : TRUE

\* make_trade, the body under @check_approval
make_trade(v, o, n) ==
    IF o.input_token = o.output_token THEN Raise("ValueError", FALSE)
    ELSE IF o.input_token = ETH_ADDRESS
    THEN eth_to_token_swap_input(v, o.output_token, o.qty, Slippage(o), n)
    ELSE IF o.output_token = ETH_ADDRESS
    THEN token_to_eth_swap_input(v, o.input_token, o.qty, Slippage(o), n)
    ELSE token_to_token_swap_input(v, o.input_token, o.output_token, o.qty,
                                   Slippage(o), n)

\* make_trade_output, the body under @check_approval
make_trade_output(v, o, n) ==
    IF o.input_token = o.output_token THEN Raise("ValueError", FALSE)
    ELSE IF o.input_token = ETH_ADDRESS
    THEN IF n.balance < n.need THEN Raise("InsufficientBalance", TRUE)
         ELSE eth_to_token_swap_output(v, o.output_token, o.qty, Slippage(o), n)
    ELSE IF o.output_token = ETH_ADDRESS
    THEN token_to_eth_swap_output(v, o.input_token, o.qty, Slippage(o), n)
    ELSE token_to_token_swap_output(v, o.input_token, o.output_token, o.qty,
                                    Slippage(o), n)

\* add_liquidity, the body under @check_approval:
\* max_token = int(max_eth * self.get_exchange_rate(token)) + 10
add_liquidity(v, o, n) ==
    LET eth_reserve == n.ex_eth[o.input_token]
        token_reserve == n.ex_token[o.input_token]
    IN  IF eth_reserve = 0 THEN Raise("ZeroDivisionError", TRUE)
        ELSE Call("addLiquidity", Trunc(o.qty * token_reserve, eth_reserve) + 10,
                  0 - 1, o.qty, << >>, 0 - 1)

\* remove_liquidity, the body under @check_approval
remove_liquidity(v, o, n) ==
    Call("removeLiquidity", 0 - 1, 0 - 1, 0, << >>, 0 - 1)

\* the method check_approval wraps
wrapped_method(v, o, n) ==
    IF o.method = "make_trade" THEN make_trade(v, o, n)
    ELSE IF o.method = "make_trade_output" THEN make_trade_output(v, o, n)
    ELSE IF o.method = "add_liquidity" THEN add_liquidity(v, o, n)
    ELSE remove_liquidity(v, o, n)

\* NodeReads restricted to what the call reads: only v1 reads the reserves,
\* only make_trade_output with native-coin input asks for a quote of its own
NodeReadsFor(v, o) ==
    {n \in NodeReads(o) :
        /\ v # 1 => /\ \A k \in DOMAIN n.ex_token : n.ex_token[k] = 0
                    /\ \A k \in DOMAIN n.ex_eth : n.ex_eth[k] = 0
        /\ ~(o.method = "make_trade_output" /\ o.input_token = ETH_ADDRESS)
              => n.need = n.price}

\* ------------------------------------------------------------- addresses
\* An address as a caller gives it: a hex string in lower case, a hex string
\* in checksum (mixed) case, or the raw 20 bytes.  a names the account.
Forms == {"lower", "checksum", "bytes"}

Addr(a, form) == [a |-> a, form |-> form]

\* the zero address has no letter: its hex strings are one string
Addresses ==
    {Addr(ETH_ADDRESS, f) : f \in {"lower", "bytes"}}
        \cup {Addr(a, f) : a \in {WETH, "DAI"}, f \in Forms}

\* constants.ETH_ADDRESS, the string "0x0000000000000000000000000000000000000000"
ETH_ADDRESS_STR == Addr(ETH_ADDRESS, "lower")

\* _str_to_addr: Address(bytes.fromhex(s[2:])) for a string, s itself otherwise
str_to_addr(s) == IF s.form = "bytes" THEN s ELSE Addr(s.a, "bytes")

\* is_same_address
is_same_address(a1, a2) == str_to_addr(a1) = str_to_addr(a2)

\* get_weth_address: the router's WETH() / WETH9(), a checksummed string
get_weth_address == Addr(WETH, "checksum")

\* ------------------------------------------------------------ fee tiers
\* an absent fee argument (None) is {}, a given one {fee}
None == {}

TIER_100 == 100
TIER_500 == 500
TIER_3000 == 3000
TIER_10000 == 10000

FeeTier == {TIER_100, TIER_500, TIER_3000, TIER_10000}

\* "if fee is None: fee = 3000" and "if not fee: fee = 3000"
DefaultFee(fee) == IF fee = None THEN TIER_3000 ELSE CHOOSE f \in fee : TRUE

\* ------------------------------------------------- fee tier validation
\* the exception class fee.py imports from .exceptions
InvalidFeeTier == "InvalidFeeTier"

FeeRaise(msg) == [err |-> InvalidFeeTier, msg |-> msg, value |-> 0 - 1]

FeeReturn(fee) == [err |-> "", msg |-> "", value |-> fee]

\* an absent fee is rejected for every version
validate_fee_tier_no_default(fee, v) ==
    IF fee = None
    THEN FeeRaise("Explicit fee tier is required")
    ELSE IF v < 3 /\ DefaultFee(fee) # TIER_3000
    THEN FeeRaise("Unsupported fee tier")
    ELSE IF DefaultFee(fee) \in FeeTier
    THEN FeeReturn(DefaultFee(fee))
    ELSE FeeRaise("Invalid fee tier")

\* an absent fee defaults to the 3000 tier for every version
validate_fee_tier_default_v3(fee, v) ==
    IF v < 3 /\ DefaultFee(fee) # TIER_3000
    THEN FeeRaise("Unsupported fee tier")
    ELSE IF DefaultFee(fee) \in FeeTier
    THEN FeeReturn(DefaultFee(fee))
    ELSE FeeRaise("Invalid fee tier")

\* every enumerated tier is accepted for every version
validate_fee_tier_any_version(fee, v) ==
    IF v = 3 /\ fee = None
    THEN FeeRaise("Explicit fee tier is required")
    ELSE IF DefaultFee(fee) \in FeeTier
    THEN FeeReturn(DefaultFee(fee))
    ELSE FeeRaise("Invalid fee tier")

\* validate_fee_tier(fee, version)
validate_fee_tier(fee, v) ==
    IF v = 3 /\ fee = None
    THEN FeeRaise("Explicit fee tier is required")
    ELSE IF v < 3 /\ DefaultFee(fee) # TIER_3000
    THEN FeeRaise("Unsupported fee tier")
    ELSE IF DefaultFee(fee) \in FeeTier
    THEN FeeReturn(DefaultFee(fee))
    ELSE FeeRaise("Invalid fee tier")

\* ---------------------------------------------------------------- quotes
\* A quote ends with an exception (err # "") or returns the node's price.
\* calls: the remote calls issued on the way, in order.
QRaise(e, calls) == [err |-> e, price |-> 0 - 1, calls |-> calls]

QReturn(price, calls) == [err |-> "", price |-> price, calls |-> calls]

RemoteCall(fn, path, fee) == [fn |-> fn, path |-> path, fee |-> fee]

RECURSIVE get_token_token_input_price(_, _, _, _, _, _)
RECURSIVE get_token_token_output_price(_, _, _, _, _, _)

\* _get_eth_token_input_price
get_eth_token_input_price(v, token, fee, p) ==
    IF v = 1
    THEN QReturn(p, <<RemoteCall("getEthToTokenInputPrice", <<token>>, None)>>)
    ELSE IF v = 2
    THEN QReturn(p, <<RemoteCall("getAmountsOut", <<get_weth_address, token>>, None)>>)
    ELSE get_token_token_input_price(v, get_weth_address, token, fee, None, p)

\* _get_token_eth_input_price
get_token_eth_input_price(v, token, fee, p) ==
    IF v = 1
    THEN QReturn(p, <<RemoteCall("getTokenToEthInputPrice", <<token>>, None)>>)
    ELSE IF v = 2
    THEN QReturn(p, <<RemoteCall("getAmountsOut", <<token, get_weth_address>>, None)>>)
    ELSE get_token_token_input_price(v, token, get_weth_address, fee, None, p)

\* _get_token_token_input_price; route: None, or {r} for the list r
get_token_token_input_price(v, token0, token1, fee, route, p) ==
    IF route = None /\ v = 2 /\ is_same_address(token0, get_weth_address)
    THEN get_eth_token_input_price(v, token1, fee, p)
    ELSE IF route = None /\ v = 2 /\ is_same_address(token1, get_weth_address)
    THEN get_token_eth_input_price(v, token0, fee, p)
    ELSE IF v = 2
    THEN LET r == IF route = None THEN <<token0, get_weth_address, token1>>
                  ELSE CHOOSE x \in route : TRUE
         IN  QReturn(p, <<RemoteCall("getAmountsOut", r, None)>>)
    ELSE IF v = 3
    THEN IF route # None /\ route # {<< >>}
         THEN QRaise("Exception", << >>)
         ELSE QReturn(p, <<RemoteCall("quoteExactInputSingle",
                                      <<token0, token1>>, {fee})>>)
    ELSE QRaise("ValueError", << >>)

\* _get_eth_token_output_price
get_eth_token_output_price(v, token, fee, p) ==
    IF v = 1
    THEN QReturn(p, <<RemoteCall("getEthToTokenOutputPrice", <<token>>, None)>>)
    ELSE IF v = 2
    THEN QReturn(p, <<RemoteCall("getAmountsIn", <<get_weth_address, token>>, None)>>)
    ELSE get_token_token_output_price(v, get_weth_address, token,
                                      {DefaultFee(fee)}, None, p)

\* _get_token_eth_output_price
get_token_eth_output_price(v, token, fee, p) ==
    IF v = 1
    THEN QReturn(p, <<RemoteCall("getTokenToEthOutputPrice", <<token>>, None)>>)
    ELSE IF v = 2
    THEN QReturn(p, <<RemoteCall("getAmountsIn", <<token, get_weth_address>>, None)>>)
    ELSE get_token_token_output_price(v, token, get_weth_address,
                                      {DefaultFee(fee)}, None, p)

\* _get_token_token_output_price, @supports([2, 3]); "if not route" takes
\* the empty list for an absent route
get_token_token_output_price(v, token0, token1, fee, route, p) ==
    LET noRoute == route = None \/ route = {<< >>}
    IN  IF v \notin {2, 3} THEN QRaise("Exception", << >>)
        ELSE IF noRoute /\ v = 2 /\ is_same_address(token0, get_weth_address)
        THEN get_eth_token_output_price(v, token1, fee, p)
        ELSE IF noRoute /\ v = 2 /\ is_same_address(token1, get_weth_address)
        THEN get_token_eth_output_price(v, token0, fee, p)
        ELSE IF v = 2
        THEN LET r == IF noRoute THEN <<token0, get_weth_address, token1>>
                      ELSE CHOOSE x \in route : TRUE
             IN  QReturn(p, <<RemoteCall("getAmountsIn", r, None)>>)
        ELSE IF ~noRoute
        THEN QRaise("Exception", << >>)
        ELSE QReturn(p, <<RemoteCall("quoteExactOutputSingle",
                                     <<token0, token1>>, {DefaultFee(fee)})>>)

\* get_price_input: the native coin is recognised by token == ETH_ADDRESS
get_price_input(v, token0, token1, fee, route, p) ==
    IF token0 = ETH_ADDRESS_STR
    THEN get_eth_token_input_price(v, token1, DefaultFee(fee), p)
    ELSE IF token1 = ETH_ADDRESS_STR
    THEN get_token_eth_input_price(v, token0, DefaultFee(fee), p)
    ELSE get_token_token_input_price(v, token0, token1, DefaultFee(fee), route, p)

\* get_price_output: the native coin is recognised by is_same_address
get_price_output(v, token0, token1, fee, route, p) ==
    IF is_same_address(token0, ETH_ADDRESS_STR)
    THEN get_eth_token_output_price(v, token1, {DefaultFee(fee)}, p)
    ELSE IF is_same_address(token1, ETH_ADDRESS_STR)
    THEN get_token_eth_output_price(v, token0, {DefaultFee(fee)}, p)
    ELSE get_token_token_output_price(v, token0, token1, {DefaultFee(fee)},
                                      route, p)

\* ------------------------------------------------------------------- state
VARIABLES
    version,        \* Uniswap.version
    last_nonce,     \* Uniswap.last_nonce
    last_nonce4,    \* Uniswap4Core.last_nonce
    nodeCount,      \* w3.eth.get_transaction_count(address): mined transactions
    pool,           \* transactions of the address the node holds, not yet mined
    allowance,      \* per ERC-20 token: allowance(address, spender) >= max_approval_check_int
    pc,             \* per thread: where its call of the Uniswap client stands
    op,             \* per thread: the call and its arguments
    arg,            \* per thread: the positional argument check_approval is at
    tx,             \* per thread: the contract call being sent, with its tx_params nonce
    result,         \* per thread: how its last call ended
    sent,           \* per thread: transactions of the call the node accepted
    netCalled,      \* per thread: the call has made a node call
    pc4,            \* the Uniswap4Core call: "idle" or "send"
    nonce4,         \* the tx_params nonce of the Uniswap4Core call
    result4,        \* how the last Uniswap4Core call ended
    maxSubmitted,   \* the highest nonce the Uniswap client has broadcast (-1: none)
    lastBroadcast,  \* outcome of the Uniswap client's latest send_raw_transaction
    pureCall,       \* the latest call of a function that writes no state: its arguments
    pureReads,      \* the node's answers to the read calls of that call
    pureRet,        \* what that call returned or raised
    closePc,        \* where close_position is
    closeTxs,       \* the transactions close_position handed to the node
    minedTxs,       \* those of them that were mined, with their status
    closeResult     \* what close_position returned or raised

vars ==
    <<version, last_nonce, last_nonce4, nodeCount, pool, allowance, pc, op, arg,
      tx, result, sent, netCalled, pc4, nonce4, result4, maxSubmitted,
      lastBroadcast, pureCall, pureReads, pureRet, closePc, closeTxs, minedTxs,
      closeResult>>

clientVars == <<pc, op, arg, tx, result, sent, netCalled>>
client4Vars == <<last_nonce4, pc4, nonce4, result4>>
nodeVars == <<nodeCount, pool, allowance>>
histVars == <<maxSubmitted, lastBroadcast>>
pureVars == <<pureCall, pureReads, pureRet>>
closeVars == <<closePc, closeTxs, minedTxs, closeResult>>

NoTx ==
    [fn |-> "none", guard |-> 0 - 1, aux |-> 0 - 1, value |-> 0, path |-> << >>,
     quoted |-> 0 - 1, nonce |-> 0 - 1, token |-> "none"]

\* the call a trade body returned, before _get_tx_params gave it a nonce
TradeTx(r) ==
    [fn |-> r.fn, guard |-> r.guard, aux |-> r.aux, value |-> r.value,
     path |-> r.path, quoted |-> r.quoted, nonce |-> 0 - 1, token |-> "none"]

\* approve: erc20.functions.approve(contract_addr, max_approval)
ApproveTx(token) == [NoTx EXCEPT !.fn = "approve", !.token = token]

PoolNonces == {p.nonce : p \in pool}

\* the nonce the node expects next: the lowest one neither mined nor pending
NodeExpected ==
    CHOOSE n \in nodeCount .. (nodeCount + Cardinality(pool)) :
        /\ n \notin PoolNonces
        /\ \A m \in nodeCount .. (n - 1) : m \in PoolNonces

\* the node takes a transaction whose nonce is neither mined nor pending
NodeAccepts(nonce) == nonce >= nodeCount /\ nonce \notin PoolNonces

\* a nonce taken from the node's count alone
get_tx_params_count_only == nodeCount

\* _get_tx_params: "nonce": max(self.last_nonce, get_transaction_count(address))
get_tx_params == Max(last_nonce, nodeCount)

\* Uniswap4Core._get_tx_params
get_tx_params4 == Max(last_nonce4, nodeCount)

\* the nonce stored without the increment
NonceAfterSendStale(nonce, accepted) == nonce

\* the nonce advanced only when send_raw_transaction returned (no finally)
NonceAfterSendOnSuccess(nonce, accepted) ==
    IF accepted THEN nonce + 1 ELSE last_nonce

\* finally: self.last_nonce = Nonce(tx_params["nonce"] + 1)
NonceAfterSend(nonce, accepted) == nonce + 1

\* Uniswap4Core: finally: self.last_nonce = Nonce(tx_params["nonce"] + 1)
NonceAfterSend4(nonce, accepted) == nonce + 1

Init ==
    /\ version \in Versions
    /\ nodeCount = 0
    /\ pool = {}
    /\ last_nonce = nodeCount
    /\ last_nonce4 = nodeCount
    /\ allowance \in [ERC20 -> BOOLEAN]
    /\ pc = [t \in Threads |-> "idle"]
    /\ op = [t \in Threads |-> NoOp]
    /\ arg = [t \in Threads |-> 0]
    /\ tx = [t \in Threads |-> NoTx]
    /\ result = [t \in Threads |-> ""]
    /\ sent = [t \in Threads |-> 0]
    /\ netCalled = [t \in Threads |-> FALSE]
    /\ pc4 = "idle"
    /\ nonce4 = 0 - 1
    /\ result4 = ""
    /\ maxSubmitted = 0 - 1
    /\ lastBroadcast = "none"
    /\ pureCall = [fn |-> "none"]
    /\ pureReads = 0
    /\ pureRet = [err |-> ""]
    /\ closePc = "idle"
    /\ closeTxs = << >>
    /\ minedTxs = << >>
    /\ closeResult = ""

\* ------------------------------------------------------ the Uniswap client
\* a thread calls a method under @check_approval: the decorator runs first;
\* @supports([1]), outside it, refuses the liquidity methods on v2 and v3
StartCall(t, ops) ==
    /\ pc[t] = "idle"
    /\ \E o \in ops :
         /\ op' = [op EXCEPT ![t] = o]
         /\ IF o.method \in LiquidityMethods /\ version # 1
            THEN /\ pc' = [pc EXCEPT ![t] = "idle"]
                 /\ arg' = [arg EXCEPT ![t] = 0]
                 /\ result' = [result EXCEPT ![t] = "Exception"]
            ELSE /\ pc' = [pc EXCEPT ![t] = "check_approval"]
                 /\ arg' = [arg EXCEPT ![t] = 1]
                 /\ result' = [result EXCEPT ![t] = ""]
    /\ tx' = [tx EXCEPT ![t] = NoTx]
    /\ sent' = [sent EXCEPT ![t] = 0]
    /\ netCalled' = [netCalled EXCEPT ![t] = FALSE]
    /\ UNCHANGED <<closeVars, pureVars, version, last_nonce, client4Vars, nodeVars, histVars>>

\* check_approval goes on to the second token (make_trade and
\* make_trade_output only), or to the wrapped method
AfterToken(t) ==
    IF arg[t] = 1 /\ op[t].method \in Methods
    THEN pc' = [pc EXCEPT ![t] = "check_approval"] /\ arg' = [arg EXCEPT ![t] = 2]
    ELSE pc' = [pc EXCEPT ![t] = "body"] /\ arg' = [arg EXCEPT ![t] = 0]

\* check_approval: one of args[0], args[1]; ETH_ADDRESS needs no approval;
\* _is_approved reads the allowance, approve is called when it is too low
CheckApproval(t) ==
    /\ pc[t] = "check_approval"
    /\ LET token == IF arg[t] = 1 THEN op[t].input_token ELSE op[t].output_token
       IN  IF token = ETH_ADDRESS
           THEN AfterToken(t) /\ UNCHANGED <<tx, netCalled>>
           ELSE /\ netCalled' = [netCalled EXCEPT ![t] = TRUE]
                /\ IF allowance[token]
                   THEN AfterToken(t) /\ UNCHANGED tx
                   ELSE /\ tx' = [tx EXCEPT ![t] = ApproveTx(token)]
                        /\ pc' = [pc EXCEPT ![t] = "tx_params"]
                        /\ UNCHANGED arg
    /\ UNCHANGED <<closeVars, pureVars, version, last_nonce, client4Vars, nodeVars, histVars,
                   op, result, sent>>

\* the wrapped method up to the contract call it builds, or to its exception
Body(t) ==
    /\ pc[t] = "body"
    /\ \E n \in NodeReadsFor(version, op[t]) :
         LET r == wrapped_method(version, op[t], n)
         IN  /\ netCalled' = [netCalled EXCEPT ![t] = @ \/ r.net]
             /\ IF r.err # ""
                THEN /\ result' = [result EXCEPT ![t] = r.err]
                     /\ pc' = [pc EXCEPT ![t] = "idle"]
                     /\ tx' = [tx EXCEPT ![t] = NoTx]
                ELSE /\ tx' = [tx EXCEPT ![t] = TradeTx(r)]
                     /\ pc' = [pc EXCEPT ![t] = "tx_params"]
                     /\ UNCHANGED result
    /\ UNCHANGED <<closeVars, pureVars, version, last_nonce, client4Vars, nodeVars, histVars,
                   op, arg, sent>>

\* _get_tx_params that also stores the nonce it computed
GetTxParamsStoresNonce(t) ==
    /\ pc[t] = "tx_params"
    /\ get_tx_params < MaxNonce
    /\ tx' = [tx EXCEPT ![t].nonce = get_tx_params]
    /\ last_nonce' = get_tx_params
    /\ pc' = [pc EXCEPT ![t] = "send"]
    /\ netCalled' = [netCalled EXCEPT ![t] = TRUE]
    /\ UNCHANGED <<closeVars, pureVars, version, client4Vars, nodeVars, histVars,
                   op, arg, result, sent>>

\* _get_tx_params, called by the method or at the top of _build_and_send_tx
GetTxParams(t) ==
    /\ pc[t] = "tx_params"
    /\ get_tx_params < MaxNonce
    /\ tx' = [tx EXCEPT ![t].nonce = get_tx_params]
    /\ pc' = [pc EXCEPT ![t] = "send"]
    /\ netCalled' = [netCalled EXCEPT ![t] = TRUE]
    /\ UNCHANGED <<closeVars, pureVars, version, last_nonce, client4Vars, nodeVars, histVars,
                   op, arg, result, sent>>

\* _build_and_send_tx from build_transaction on.  BuildError: build_transaction
\* or estimate_gas raised, before the try.  Otherwise send_raw_transaction
\* returned a hash (the node took the transaction) or raised, and the finally
\* clause wrote last_nonce.
BuildAndSend(t) ==
    /\ pc[t] = "send"
    /\ \E outcome \in {"BuildError", "accepted", "SendError"} :
         /\ outcome = "accepted" => NodeAccepts(tx[t].nonce)
         /\ last_nonce' =
              IF outcome = "BuildError" THEN last_nonce
              ELSE NonceAfterSend(tx[t].nonce, outcome = "accepted")
         /\ pool' =
              IF outcome = "accepted"
              THEN pool \cup {[nonce |-> tx[t].nonce, approve |-> tx[t].token]}
              ELSE pool
         /\ sent' = [sent EXCEPT ![t] = IF outcome = "accepted" THEN @ + 1 ELSE @]
         /\ maxSubmitted' =
              IF outcome = "BuildError" THEN maxSubmitted
              ELSE Max(maxSubmitted, tx[t].nonce)
         /\ lastBroadcast' =
              IF outcome = "BuildError" THEN lastBroadcast
              ELSE IF outcome = "accepted" THEN "ok" ELSE "failed"
         /\ IF outcome = "accepted" /\ tx[t].fn = "approve"
            THEN /\ pc' = [pc EXCEPT ![t] = "approve_wait"]
                 /\ UNCHANGED <<result, tx>>
            ELSE /\ pc' = [pc EXCEPT ![t] = "idle"]
                 /\ tx' = [tx EXCEPT ![t] = NoTx]
                 /\ result' = [result EXCEPT ![t] =
                                 IF outcome = "accepted" THEN "ok" ELSE outcome]
    /\ UNCHANGED <<closeVars, pureVars, version, client4Vars, nodeCount, allowance, op, arg,
                   netCalled>>

\* approve that does not wait for the receipt of its transaction
ApproveNoWait(t) ==
    /\ pc[t] = "approve_wait"
    /\ AfterToken(t)
    /\ tx' = [tx EXCEPT ![t] = NoTx]
    /\ UNCHANGED <<closeVars, pureVars, version, last_nonce, client4Vars, nodeVars, histVars,
                   op, result, sent, netCalled>>

\* approve: wait_for_transaction_receipt(tx, timeout=6000), then back to the
\* decorator; TimeExhausted when the transaction is not mined in time
ApproveWait(t) ==
    /\ pc[t] = "approve_wait"
    /\ IF tx[t].nonce < nodeCount
       THEN AfterToken(t) /\ UNCHANGED result
       ELSE /\ pc' = [pc EXCEPT ![t] = "idle"]
            /\ result' = [result EXCEPT ![t] = "TimeExhausted"]
            /\ UNCHANGED arg
    /\ tx' = [tx EXCEPT ![t] = NoTx]
    /\ UNCHANGED <<closeVars, pureVars, version, last_nonce, client4Vars, nodeVars, histVars,
                   op, sent, netCalled>>

\* ------------------------------------------------- the Uniswap4Core client
\* swap, initialize, donate, ..., approve: self._get_tx_params(...)
V4GetTxParams ==
    /\ pc4 = "idle"
    /\ get_tx_params4 < MaxNonce
    /\ nonce4' = get_tx_params4
    /\ pc4' = "send"
    /\ result4' = ""
    /\ UNCHANGED <<closeVars, pureVars, version, last_nonce, last_nonce4, nodeVars, clientVars, histVars>>

\* Uniswap4Core._build_and_send_tx
V4BuildAndSend ==
    /\ pc4 = "send"
    /\ \E outcome \in {"BuildError", "accepted", "SendError"} :
         /\ outcome = "accepted" => NodeAccepts(nonce4)
         /\ last_nonce4' =
              IF outcome = "BuildError" THEN last_nonce4
              ELSE NonceAfterSend4(nonce4, outcome = "accepted")
         /\ pool' =
              IF outcome = "accepted"
              THEN pool \cup {[nonce |-> nonce4, approve |-> "none"]}
              ELSE pool
         /\ result4' = IF outcome = "accepted" THEN "ok" ELSE outcome
    /\ pc4' = "idle"
    /\ UNCHANGED <<closeVars, pureVars, version, last_nonce, nonce4, nodeCount, allowance, clientVars,
                   histVars>>

\* ---------------------------------------------------------------- the node
\* the pending transaction with the next nonce is mined; an approve takes effect
Mine ==
    /\ \E p \in pool :
         /\ p.nonce = nodeCount
         /\ pool' = pool \ {p}
         /\ allowance' =
              IF p.approve \in ERC20
              THEN [allowance EXCEPT ![p.approve] = TRUE]
              ELSE allowance
    /\ nodeCount' = nodeCount + 1
    /\ UNCHANGED <<closeVars, pureVars, version, last_nonce, client4Vars, clientVars, histVars>>

\* a transaction of the same address sent from elsewhere, with the next nonce
ExternalTx ==
    /\ NodeExpected < MaxNonce
    /\ pool' = pool \cup {[nonce |-> NodeExpected, approve |-> "none"]}
    /\ UNCHANGED <<closeVars, pureVars, version, last_nonce, client4Vars, clientVars, nodeCount,
                   allowance, histVars>>

\* --------------------------------------------------------- specifications
ClientStep(t, ops) ==
    \/ StartCall(t, ops)
    \/ CheckApproval(t)
    \/ Body(t)
    \/ GetTxParams(t)
    \/ BuildAndSend(t)
    \/ ApproveWait(t)

\* one thread uses the client
Next ==
    \/ ClientStep(MainThread, AllOps)
    \/ Mine
    \/ ExternalTx

Spec == Init /\ [][Next]_vars

\* one thread uses the client, and a Uniswap4Core client signs for the same
\* address; the tokens FewOps does not name are approved
InitNonce ==
    /\ Init
    /\ allowance[WETH] /\ allowance["USDC"]

NextNonce ==
    \/ ClientStep(MainThread, FewOps)
    \/ V4GetTxParams
    \/ V4BuildAndSend
    \/ Mine
    \/ ExternalTx

SpecNonce == InitNonce /\ [][NextNonce]_vars

\* several threads use one v2 client
InitConc ==
    /\ Init
    /\ version = 2
    /\ allowance[WETH] /\ allowance["USDC"]

NextConc ==
    \/ \E t \in Threads : ClientStep(t, FewOps)
    \/ Mine
    \/ ExternalTx

SpecConc == InitConc /\ [][NextConc]_vars

\* ------------------------------------------------- quotes: specification
FeeArgs == {None, {TIER_3000}, {TIER_500}}

\* no route, the empty list, the direct route and a route through a third token
RouteArgs(token0, token1) ==
    {None, {<< >>}, {<<token0, token1>>},
     {<<token0, Addr("USDC", "checksum"), token1>>}}

PriceFns == {"get_price_input", "get_price_output"}

QuoteFns ==
    PriceFns \cup {"_get_eth_token_output_price", "_get_token_eth_output_price",
                   "_get_token_token_output_price", "get_pool_instance"}

\* get_pool_instance, @supports([3]); fee defaults to 3_000 when the argument
\* is left out, an explicit fee=None fails the assertion
get_pool_instance(v, token_0, token_1, fee, p) ==
    IF v # 3 THEN QRaise("Exception", << >>)
    ELSE IF token_0 = token_1 THEN QRaise("AssertionError", << >>)
    ELSE IF fee = None \/ DefaultFee(fee) \notin FeeTier
    THEN QRaise("AssertionError", << >>)
    ELSE QReturn(p, <<RemoteCall("getPool", <<token_0, token_1>>, fee)>>)

\* the calls the quote specification makes
QuoteCalls ==
    {c \in [fn : QuoteFns, token0 : Addresses, token1 : Addresses, fee : FeeArgs,
            route : UNION {RouteArgs(a, b) : a, b \in Addresses}] :
        /\ c.route \in RouteArgs(c.token0, c.token1)
        /\ c.fn \notin (PriceFns \cup {"_get_token_token_output_price"})
              => c.route = None
        /\ c.fn = "_get_eth_token_output_price" => c.token0 = ETH_ADDRESS_STR
        /\ c.fn = "_get_token_eth_output_price" => c.token1 = ETH_ADDRESS_STR}

QuoteResult(v, c, p) ==
    IF c.fn = "get_price_input"
    THEN get_price_input(v, c.token0, c.token1, c.fee, c.route, p)
    ELSE IF c.fn = "get_price_output"
    THEN get_price_output(v, c.token0, c.token1, c.fee, c.route, p)
    ELSE IF c.fn = "_get_eth_token_output_price"
    THEN get_eth_token_output_price(v, c.token1, c.fee, p)
    ELSE IF c.fn = "_get_token_eth_output_price"
    THEN get_token_eth_output_price(v, c.token0, c.fee, p)
    ELSE IF c.fn = "_get_token_token_output_price"
    THEN get_token_token_output_price(v, c.token0, c.token1, c.fee, c.route, p)
    ELSE get_pool_instance(v, c.token0, c.token1, c.fee, p)

tradeVars ==
    <<version, last_nonce, client4Vars, nodeVars, clientVars, histVars,
      closeVars>>

\* a caller asks the client for a quote
Quote ==
    /\ pureCall.fn = "none"
    /\ \E c \in QuoteCalls, p \in Quotes :
         /\ pureCall' = c
         /\ pureReads' = p
         /\ pureRet' = QuoteResult(version, c, p)
    /\ UNCHANGED tradeVars

InitQuote ==
    /\ Init
    /\ allowance = [k \in ERC20 |-> TRUE]

NextQuote == Quote

SpecQuote == InitQuote /\ [][NextQuote]_vars

\* ------------------------------------- fee tier validation: specification
\* None and every integer fee from -1 to MaxFeeInput
FeeInputs == {None} \cup {{f} : f \in (0 - 1) .. MaxFeeInput}

\* a caller validates a fee for a version
ValidateFee ==
    /\ pureCall.fn = "none"
    /\ \E fee \in FeeInputs, v \in Versions :
         /\ pureCall' = [fn |-> "validate_fee_tier", fee |-> fee, version |-> v]
         /\ pureRet' = validate_fee_tier(fee, v)
    /\ UNCHANGED <<pureReads, tradeVars>>

InitFee ==
    /\ InitQuote
    /\ version = 3

NextFee == ValidateFee

SpecFee == InitFee /\ [][NextFee]_vars

\* ------------------------------------------ trade bodies: specification
\* the wrapped method as a function of the call and of the node's answers
TradeBody ==
    /\ pureCall.fn = "none"
    /\ \E o \in AllOps :
         /\ o.method \in LiquidityMethods => version = 1
         /\ \E n \in NodeReadsFor(version, o) :
              /\ pureCall' = [fn |-> o.method, op |-> o]
              /\ pureReads' = n
              /\ pureRet' = wrapped_method(version, o, n)
    /\ UNCHANGED tradeVars

InitBody == InitQuote

NextBody == TradeBody

SpecBody == InitBody /\ [][NextBody]_vars

\* ------------------------------------------------------------------ ticks
MIN_TICK == 0 - 887272

MAX_TICK == 0 - MIN_TICK

\* _tick_spacing
tick_spacing ==
    [fee \in FeeTier |->
        CASE fee = TIER_100 -> 1
          [] fee = TIER_500 -> 10
          [] fee = TIER_3000 -> 60
          [] fee = TIER_10000 -> 200]

\* _tick_bitmap_range: <<lowest word index, highest word index>>
tick_bitmap_range ==
    [fee \in FeeTier |->
        CASE fee = TIER_100 -> <<0 - 3466, 3465>>
          [] fee = TIER_500 -> <<0 - 347, 346>>
          [] fee = TIER_3000 -> <<0 - 58, 57>>
          [] fee = TIER_10000 -> <<0 - 18, 17>>]

\* Python's n // d for d # 0: the quotient rounded toward minus infinity
PyFloorDiv(n, d) == IF d > 0 THEN n \div d ELSE (0 - n) \div (0 - d)

\* Python's round(n / d) for d > 0: the nearest integer, a tie going to the
\* even one
round(n, d) ==
    LET q == n \div d
        r == n - q * d
    IN  IF 2 * r < d THEN q
        ELSE IF 2 * r > d THEN q + 1
        ELSE IF q % 2 = 0 THEN q ELSE q + 1

\* get_min_tick
get_min_tick(fee) ==
    LET min_tick_spacing == tick_spacing[fee]
    IN  0 - (PyFloorDiv(MIN_TICK, 0 - min_tick_spacing) * min_tick_spacing)

\* get_max_tick
get_max_tick(fee) ==
    LET max_tick_spacing == tick_spacing[fee]
    IN  PyFloorDiv(MAX_TICK, max_tick_spacing) * max_tick_spacing

\* default_tick_range
default_tick_range(fee) == <<get_min_tick(fee), get_max_tick(fee)>>

\* what a tick function gives back: a tick, Python's False (which compares
\* equal to 0), or an exception
TickReturn(t) == [err |-> "", found |-> TRUE, tick |-> t]

TickFalse == [err |-> "", found |-> FALSE, tick |-> 0]

TickRaise(e) == [err |-> e, found |-> FALSE, tick |-> 0]

\* nearest_tick with every tick rounded up to the next multiple
nearest_tick_next_multiple(tick, fee) ==
    LET min_tick == default_tick_range(fee)[1]
        max_tick == default_tick_range(fee)[2]
    IN  IF ~(min_tick <= tick /\ tick <= max_tick)
        THEN TickRaise("AssertionError")
        ELSE TickReturn((tick \div tick_spacing[fee]) * tick_spacing[fee]
                            + tick_spacing[fee])

\* nearest_tick with the two bounds themselves moved one spacing inward
nearest_tick_bounds_excluded(tick, fee) ==
    LET min_tick == default_tick_range(fee)[1]
        max_tick == default_tick_range(fee)[2]
        rounded_tick_spacing ==
            round(tick, tick_spacing[fee]) * tick_spacing[fee]
    IN  IF ~(min_tick <= tick /\ tick <= max_tick)
        THEN TickRaise("AssertionError")
        ELSE IF rounded_tick_spacing <= min_tick
        THEN TickReturn(rounded_tick_spacing + tick_spacing[fee])
        ELSE IF rounded_tick_spacing >= max_tick
        THEN TickReturn(rounded_tick_spacing - tick_spacing[fee])
        ELSE TickReturn(rounded_tick_spacing)

\* nearest_tick without the range assertion: out-of-range ticks are rounded
\* and moved one spacing toward the range
nearest_tick_no_assert(tick, fee) ==
    LET min_tick == default_tick_range(fee)[1]
        max_tick == default_tick_range(fee)[2]
        rounded_tick_spacing ==
            round(tick, tick_spacing[fee]) * tick_spacing[fee]
    IN  IF rounded_tick_spacing < min_tick
        THEN TickReturn(rounded_tick_spacing + tick_spacing[fee])
        ELSE IF rounded_tick_spacing > max_tick
        THEN TickReturn(rounded_tick_spacing - tick_spacing[fee])
        ELSE TickReturn(rounded_tick_spacing)

\* nearest_tick
nearest_tick(tick, fee) ==
    LET min_tick == default_tick_range(fee)[1]
        max_tick == default_tick_range(fee)[2]
        rounded_tick_spacing ==
            round(tick, tick_spacing[fee]) * tick_spacing[fee]
    IN  IF ~(min_tick <= tick /\ tick <= max_tick)
        THEN TickRaise("AssertionError")
        ELSE IF rounded_tick_spacing < min_tick
        THEN TickReturn(rounded_tick_spacing + tick_spacing[fee])
        ELSE IF rounded_tick_spacing > max_tick
        THEN TickReturn(rounded_tick_spacing - tick_spacing[fee])
        ELSE TickReturn(rounded_tick_spacing)

\* bin(word) for word >= 0: the characters "0", "b", then the binary digits
\* from the most significant one
RECURSIVE digits(_)
digits(word) ==
    IF word < 2 THEN <<IF word = 1 THEN "1" ELSE "0">>
    ELSE digits(word \div 2) \o <<IF word % 2 = 1 THEN "1" ELSE "0">>

bin(word) == <<"0", "b">> \o digits(word)

\* pool.functions.tickBitmap(wordPos).call(): a pool is given by its non-zero
\* words, every other word of the bitmap is 0
tickBitmap(v3pool, wordPos) ==
    IF wordPos \in DOMAIN v3pool THEN v3pool[wordPos] ELSE 0

\* get_max_tick_from_wordpos
get_max_tick_from_wordpos(wordPos, bitmap, spacing, fee) ==
    LET compressed_tick == wordPos * 256
        _tick == compressed_tick * spacing
        min_tick_in_word == nearest_tick(_tick, fee)
    IN  IF min_tick_in_word.err # "" THEN min_tick_in_word
        ELSE TickReturn(min_tick_in_word.tick + Len(bitmap) * spacing)

\* get_min_tick_from_wordpos
get_min_tick_from_wordpos(wordPos, spacing, fee) ==
    LET compressed_tick == wordPos * 256
        _tick == compressed_tick * spacing
    IN  nearest_tick(_tick, fee)

\* range(start, stop, step) for step 1 or -1, as the set of its elements
range(start, stop, step) ==
    IF step = 1 THEN start .. (stop - 1) ELSE (stop + 1) .. start

\* for bit in bitmap[3:]: if int(bit) == 1
has_bit(bitmap) == \E i \in 4 .. Len(bitmap) : bitmap[i] = "1"

\* find_tick_from_bitmap: the words of the range are read in the order of the
\* scan and the first one with a bit gives the tick.  Only the pool's non-zero
\* words can have a bit, so only those are looked at here.
find_tick_from_bitmap(bitmap_spacing, v3pool, spacing, fee, left) ==
    LET min_wordPos == IF left THEN bitmap_spacing[2] ELSE bitmap_spacing[1]
        max_wordPos == IF left THEN bitmap_spacing[1] ELSE bitmap_spacing[2]
        step == IF left THEN 0 - 1 ELSE 1
        hits == {wordPos \in DOMAIN v3pool :
                    /\ wordPos \in range(min_wordPos, max_wordPos, step)
                    /\ has_bit(bin(tickBitmap(v3pool, wordPos)))}
        first == IF left
                 THEN CHOOSE w \in hits : \A u \in hits : u <= w
                 ELSE CHOOSE w \in hits : \A u \in hits : u >= w
    IN  IF hits = {} THEN TickFalse
        ELSE IF left
        THEN get_max_tick_from_wordpos(first, bin(tickBitmap(v3pool, first)),
                                       spacing, fee)
        ELSE get_min_tick_from_wordpos(first, spacing, fee)

\* x != False in Python: False compares equal to the integer 0
NotEqualFalse(x) == x.tick # 0

\* get_tvl_in_pool up to its two assertions
get_tvl_in_pool(fee, v3pool) ==
    LET TICK_SPACING == tick_spacing[fee]
        BITMAP_SPACING == tick_bitmap_range[fee]
        _max_tick == find_tick_from_bitmap(BITMAP_SPACING, v3pool, TICK_SPACING,
                                           fee, TRUE)
        _min_tick == find_tick_from_bitmap(BITMAP_SPACING, v3pool, TICK_SPACING,
                                           fee, FALSE)
        err == IF _max_tick.err # "" THEN _max_tick.err
               ELSE IF _min_tick.err # "" THEN _min_tick.err
               ELSE IF ~NotEqualFalse(_max_tick) THEN "Error finding max tick"
               ELSE IF ~NotEqualFalse(_min_tick) THEN "Error finding min tick"
               ELSE ""
    IN  [err |-> err, _max_tick |-> _max_tick, _min_tick |-> _min_tick]

\* ---------------------------------------------------- ticks: specification
\* how far from MIN_TICK, 0 and MAX_TICK the ticks given to nearest_tick go
TickWindow == 250

Ticks ==
    UNION {(anchor - TickWindow) .. (anchor + TickWindow) :
              anchor \in {MIN_TICK, 0, MAX_TICK}}

\* the words a pool's bitmap holds
Words == {1, 2, 3, 6}

\* the word indices at which a pool has a non-zero word: the two ends of the
\* tier's range, their neighbours, and the words around tick 0
WordPositions(fee) ==
    {tick_bitmap_range[fee][1], tick_bitmap_range[fee][1] + 1, 0 - 1, 0, 1,
     tick_bitmap_range[fee][2] - 1, tick_bitmap_range[fee][2]}

\* pools with at most two non-zero words
Pools(fee) ==
    UNION {[S -> Words] : S \in {T \in SUBSET WordPositions(fee) :
                                    Cardinality(T) <= 2}}

NearestTick ==
    /\ pureCall.fn = "none"
    /\ \E tick \in Ticks, fee \in FeeTier :
         LET once == nearest_tick(tick, fee)
         IN  /\ pureCall' = [fn |-> "nearest_tick", tick |-> tick, fee |-> fee]
             /\ pureRet' = once
             /\ pureReads' = IF once.err = "" THEN nearest_tick(once.tick, fee)
                             ELSE once
    /\ UNCHANGED tradeVars

TickFromWordpos ==
    /\ pureCall.fn = "none"
    /\ \E fee \in FeeTier :
         \E wordPos \in tick_bitmap_range[fee][1] .. tick_bitmap_range[fee][2] :
            \/ /\ pureCall' = [fn |-> "get_min_tick_from_wordpos",
                               wordPos |-> wordPos, fee |-> fee]
               /\ pureRet' = get_min_tick_from_wordpos(wordPos,
                                                       tick_spacing[fee], fee)
            \/ \E word \in Words :
                 /\ pureCall' = [fn |-> "get_max_tick_from_wordpos",
                                 wordPos |-> wordPos, word |-> word,
                                 fee |-> fee]
                 /\ pureRet' = get_max_tick_from_wordpos(wordPos, bin(word),
                                                       tick_spacing[fee], fee)
    /\ UNCHANGED <<pureReads, tradeVars>>

FindTickFromBitmap ==
    /\ pureCall.fn = "none"
    /\ \E fee \in FeeTier, left \in BOOLEAN :
         \E v3pool \in Pools(fee) :
            /\ pureCall' = [fn |-> "find_tick_from_bitmap", fee |-> fee,
                            left |-> left]
            /\ pureReads' = v3pool
            /\ pureRet' = find_tick_from_bitmap(tick_bitmap_range[fee], v3pool,
                                                tick_spacing[fee], fee, left)
    /\ UNCHANGED tradeVars

GetTvlInPool ==
    /\ pureCall.fn = "none"
    /\ \E fee \in FeeTier :
         \E v3pool \in Pools(fee) :
            /\ pureCall' = [fn |-> "get_tvl_in_pool", fee |-> fee]
            /\ pureReads' = v3pool
            /\ pureRet' = get_tvl_in_pool(fee, v3pool)
    /\ UNCHANGED tradeVars

InitTick == InitQuote

NextTick ==
    \/ NearestTick
    \/ TickFromWordpos
    \/ FindTickFromBitmap
    \/ GetTvlInPool

SpecTick == InitTick /\ [][NextTick]_vars

\* ------------------------------------------------------- address strings
\* the most characters after the prefix in a string given as an address
MaxDigits == 42

\* A string as far as address parsing looks at it: how it starts, how many
\* characters follow the prefix, and whether all of them are hex digits.
AddrStrings ==
    {s \in [prefix : {"0x", "0X", ""}, n : 0 .. MaxDigits, hex : BOOLEAN] :
        s.n = 0 => s.hex}

\* bytes.fromhex(s[2:]): one byte for every two hex digits
fromhex(s) ==
    IF ~s.hex \/ s.n % 2 = 1 THEN [err |-> "ValueError", bytes |-> 0]
    ELSE [err |-> "", bytes |-> s.n \div 2]

\* _str_to_addr, for a string
_str_to_addr(s) ==
    IF s.prefix = "0x" THEN fromhex(s)
    ELSE [err |-> "NameNotFound", bytes |-> 0]

\* Web3.toChecksumAddress on a string starting with "0x": the checksummed
\* form of 20 bytes, a ValueError for anything but 40 hex digits
toChecksumAddress(s) ==
    IF s.hex /\ s.n = 40 THEN [err |-> "", bytes |-> 20]
    ELSE [err |-> "ValueError", bytes |-> 0]

\* _addr_to_str, for a string
_addr_to_str(a) ==
    IF a.prefix = "0x" THEN toChecksumAddress(a)
    ELSE [err |-> "NameNotFound", bytes |-> 0]

\* _validate_address: assert _addr_to_str(a)
_validate_address(a) == _addr_to_str(a)

ParseAddress ==
    /\ pureCall.fn = "none"
    /\ \E s \in AddrStrings :
         \/ /\ pureCall' = [fn |-> "_str_to_addr", s |-> s]
            /\ pureRet' = _str_to_addr(s)
         \/ /\ pureCall' = [fn |-> "_validate_address", s |-> s]
            /\ pureRet' = _validate_address(s)
    /\ UNCHANGED <<pureReads, tradeVars>>

InitAddr == InitQuote

NextAddr == ParseAddress

SpecAddr == InitAddr /\ [][NextAddr]_vars

\* ------------------------------------------- the quote behind a swap's guard
\* the quote a swap method asks for to compute its slippage guard
\* (min_tokens_bought, amount_in_max), p being the node's answer
swap_quote(v, o, p) ==
    LET input_token == Addr(o.input_token, "checksum")
        output_token == Addr(o.output_token, "checksum")
        fee == DefaultFee(None)
    IN  IF o.method = "make_trade"
        THEN IF o.input_token = ETH_ADDRESS
             THEN get_eth_token_input_price(v, output_token, fee, p)
             ELSE IF o.output_token = ETH_ADDRESS
             THEN get_token_eth_input_price(v, input_token, fee, p)
             ELSE get_token_token_input_price(v, input_token, output_token,
                                              fee, None, p)
        ELSE IF o.input_token = ETH_ADDRESS
             THEN get_eth_token_output_price(v, output_token, {fee}, p)
             ELSE IF o.output_token = ETH_ADDRESS
             THEN get_token_eth_output_price(v, input_token, {fee}, p)
             ELSE get_token_token_output_price(v, input_token, output_token,
                                               {fee}, None, p)

\* the accounts a path of addresses names
accounts(path) == [i \in DOMAIN path |-> path[i].a]

\* a swap on distinct tokens: the quote it asks for and the call it builds
SwapQuote ==
    /\ pureCall.fn = "none"
    /\ \E o \in TradeOps :
         /\ o.input_token # o.output_token
         /\ \E n \in NodeReadsFor(version, o) :
              /\ pureCall' = [fn |-> o.method, op |-> o]
              /\ pureReads' = swap_quote(version, o, n.price)
              /\ pureRet' = wrapped_method(version, o, n)
    /\ UNCHANGED tradeVars

InitPath == InitQuote

NextPath == SwapQuote

SpecPath == InitPath /\ [][NextPath]_vars

\* ---------------------------------------------------------- close_position
\* the three transactions of close_position, in the order of the code
CloseSteps == <<"decreaseLiquidity", "collect", "burn">>

\* amount0Min / amount1Min arguments, and what collect(...).call() answers
MinAmounts == {0, 1}

\* the function names of a sequence of transactions
fns(txs) == [i \in DOMAIN txs |-> txs[i].fn]

\* close_position is called: @supports([3]) refuses any other version; the
\* position is read, the minimum amounts are replaced by the collectable fees
\* when one of the position's tokens is WETH9, and decreaseLiquidity is
\* handed to the node with transact(), which raises or returns a hash
ClosePosition ==
    /\ closePc = "idle"
    /\ IF version # 3
       THEN /\ closePc' = "stopped"
            /\ closeResult' = "Exception"
            /\ UNCHANGED closeTxs
       ELSE \E amount0Min \in MinAmounts, amount1Min \in MinAmounts,
               weth \in BOOLEAN, owed \in MinAmounts \X MinAmounts :
              LET mins == IF weth THEN owed ELSE <<amount0Min, amount1Min>>
              IN  \/ /\ closeTxs' = <<[fn |-> CloseSteps[1],
                                       amount0Min |-> mins[1],
                                       amount1Min |-> mins[2]]>>
                     /\ closePc' = "wait"
                     /\ UNCHANGED closeResult
                  \/ /\ closePc' = "stopped"
                     /\ closeResult' = "TransactError"
                     /\ UNCHANGED closeTxs
    /\ UNCHANGED <<minedTxs, pureVars, version, last_nonce, client4Vars,
                   nodeVars, clientVars, histVars>>

\* the node mines the pending transaction: it takes effect or reverts (its
\* minimum amounts are not met, the deadline has passed; burn reverts unless
\* the liquidity was removed and the fees collected).  The node does so
\* whether or not close_position is still running.
CloseMine ==
    /\ Len(minedTxs) < Len(closeTxs)
    /\ LET t == closeTxs[Len(minedTxs) + 1]
       IN  \E status \in {"ok", "reverted"} :
              /\ (t.fn = "burn" /\ status = "ok")
                    => \A i \in DOMAIN minedTxs : minedTxs[i].status = "ok"
              /\ minedTxs' = Append(minedTxs, [fn |-> t.fn, status |-> status])
    /\ UNCHANGED <<closePc, closeTxs, closeResult, pureVars, version,
                   last_nonce, client4Vars, nodeVars, clientVars, histVars>>

\* the next transaction handed to the node without the receipt of the
\* previous one
CloseNextStepNoReceipt ==
    /\ closePc = "wait"
    /\ Len(closeTxs) < Len(CloseSteps)
    /\ closeTxs' = Append(closeTxs, [fn |-> CloseSteps[Len(closeTxs) + 1]])
    /\ UNCHANGED <<closePc, closeResult>>
    /\ UNCHANGED <<minedTxs, pureVars, version, last_nonce, client4Vars,
                   nodeVars, clientVars, histVars>>

\* wait_for_transaction_receipt returns the receipt of the transaction sent
\* last, whatever its status; after burn's the receipt is returned, otherwise
\* the next transaction is handed to the node, which raises or returns a hash
CloseNextStep ==
    /\ closePc = "wait"
    /\ Len(minedTxs) = Len(closeTxs)
    /\ IF Len(closeTxs) = Len(CloseSteps)
       THEN /\ closePc' = "done"
            /\ closeResult' = "receipt"
            /\ UNCHANGED closeTxs
       ELSE \/ /\ closeTxs' =
                     Append(closeTxs, [fn |-> CloseSteps[Len(closeTxs) + 1]])
               /\ UNCHANGED <<closePc, closeResult>>
            \/ /\ closePc' = "stopped"
               /\ closeResult' = "TransactError"
               /\ UNCHANGED closeTxs
    /\ UNCHANGED <<minedTxs, pureVars, version, last_nonce, client4Vars,
                   nodeVars, clientVars, histVars>>

\* close_position ends while it waits for a receipt: the wait times out
\* (TimeExhausted) or the process dies
CloseStop ==
    /\ closePc = "wait"
    /\ closePc' = "stopped"
    /\ \/ Len(minedTxs) < Len(closeTxs) /\ closeResult' = "TimeExhausted"
       \/ closeResult' = "crash"
    /\ UNCHANGED <<closeTxs, minedTxs, pureVars, version, last_nonce,
                   client4Vars, nodeVars, clientVars, histVars>>

InitClose == InitQuote

NextClose ==
    \/ ClosePosition
    \/ CloseMine
    \/ CloseNextStep
    \/ CloseStop

SpecClose == InitClose /\ [][NextClose]_vars

\* ---------------------------------------------------------------- claims
\* thread t's _build_and_send_tx ends in this step, having reached the
\* broadcast (send_raw_transaction returned or raised)
BroadcastStep(t) ==
    /\ pc[t] = "send"
    /\ pc'[t] # "send"
    /\ result'[t] # "BuildError"

\* the Uniswap4Core call ends in this step, having reached the broadcast
BroadcastStep4 ==
    /\ pc4 = "send"
    /\ pc4' = "idle"
    /\ result4' # "BuildError"

Floor(n, d) == n \div d

Ceil(n, d) == 0 - ((0 - n) \div d)

\* C1: every exact-input swap that make_trade hands to the node carries
\* minimumOut = floor((1 - slippage) * quotedOut), for versions 1, 2 and 3
\* and the three topologies.
C1_MinimumOutGuard ==
    \A t \in Threads :
        (pc[t] = "send" /\ op[t].method = "make_trade" /\ tx[t].fn # "approve")
            => tx[t].guard = Floor((100 - Slippage(op[t])) * tx[t].quoted, 100)

\* C2: every exact-output swap that make_trade_output hands to the node
\* carries maximumIn = ceil((1 + slippage) * quotedCost), as the maximum
\* input amount or, for native-coin input, as the attached value.
C2_MaximumInGuard ==
    \A t \in Threads :
        (pc[t] = "send" /\ op[t].method = "make_trade_output"
                        /\ tx[t].fn # "approve")
            => LET maximumIn == Ceil((100 + Slippage(op[t])) * tx[t].quoted, 100)
               IN  IF op[t].input_token = ETH_ADDRESS
                   THEN tx[t].value = maximumIn
                   ELSE tx[t].guard = maximumIn

\* C3: the nonce _get_tx_params returns, in Uniswap and in Uniswap4Core, is
\* max(last_nonce, node-reported transaction count): one of the two and at
\* least both.
C3_NonceIsMax ==
    [][ /\ \A t \in Threads :
            (pc[t] = "tx_params" /\ pc'[t] = "send")
                => /\ tx'[t].nonce >= last_nonce
                   /\ tx'[t].nonce >= nodeCount
                   /\ tx'[t].nonce \in {last_nonce, nodeCount}
        /\ (pc4 = "idle" /\ pc4' = "send")
                => /\ nonce4' >= last_nonce4
                   /\ nonce4' >= nodeCount
                   /\ nonce4' \in {last_nonce4, nodeCount}
      ]_vars

\* both clients hold a nonce that came from the node's count, which
\* transactions sent from elsewhere had raised above their last_nonce
C3_Witness ==
    /\ pc[MainThread] = "send"
    /\ tx[MainThread].nonce > last_nonce
    /\ pc4 = "send"
    /\ nonce4 > last_nonce4

\* C4: with one thread, last_nonce never decreases and every transaction
\* that reaches the broadcast carries a nonce greater than every nonce the
\* client broadcast before.
C4_NonceMonotonic ==
    [][ /\ last_nonce' >= last_nonce
        /\ \A t \in Threads : BroadcastStep(t) => tx[t].nonce > maxSubmitted
      ]_vars

\* two broadcasts were made, the later one failed
C4_Witness ==
    /\ maxSubmitted >= 1
    /\ lastBroadcast = "failed"
    /\ last_nonce = maxSubmitted + 1

\* C5: with several threads, no two transactions being built hold the same
\* nonce and last_nonce never falls behind a nonce already broadcast.
C5_AtomicNonce ==
    /\ \A t1, t2 \in Threads :
          (t1 # t2 /\ pc[t1] = "send" /\ pc[t2] = "send")
              => tx[t1].nonce # tx[t2].nonce
    /\ last_nonce >= maxSubmitted + 1

\* C6: when _build_and_send_tx ends after reaching the broadcast, last_nonce
\* is tx_params.nonce + 1, whether the broadcast returned or raised (Uniswap
\* and Uniswap4Core).
C6_NonceAfterBroadcast ==
    [][ /\ \A t \in Threads : BroadcastStep(t) => last_nonce' = tx[t].nonce + 1
        /\ BroadcastStep4 => last_nonce4' = nonce4 + 1
      ]_vars

\* a broadcast of each client raised
C6_Witness ==
    /\ result[MainThread] = "SendError"
    /\ lastBroadcast = "failed"
    /\ result4 = "SendError"
    /\ last_nonce4 >= 1

\* C7: after a failed broadcast the nonce _get_tx_params computes for the
\* next transaction is the one the node expects next.
C7_FailedBroadcastKeepsSync ==
    (lastBroadcast = "failed" /\ pc[MainThread] = "idle")
        => get_tx_params = NodeExpected

\* C8: last_nonce changes only in a step in which _build_and_send_tx reaches
\* the broadcast: reads, _get_tx_params and calls that fail earlier leave it.
C8_NonceWrittenOnlyAtBroadcast ==
    [][ last_nonce' # last_nonce => \E t \in Threads : BroadcastStep(t) ]_vars

\* a call got its tx_params from a node count above last_nonce and failed
\* before the broadcast
C8_Witness ==
    /\ result[MainThread] = "BuildError"
    /\ netCalled[MainThread]
    /\ nodeCount > last_nonce

\* C9: a call that ends with a pre-flight failure has had no transaction
\* accepted by the node.
C9_PreflightNoBroadcast ==
    \A t \in Threads :
        (pc[t] = "idle" /\ result[t] \in {"InsufficientBalance", "ValueError"})
            => sent[t] = 0

\* C10: a call with input_token = output_token ends with ValueError and has
\* made no node call.
C10_SameTokenNoNetworkCall ==
    \A t \in Threads :
        (pc[t] = "idle" /\ result[t] # "" /\ op[t].method \in Methods
                        /\ op[t].input_token = op[t].output_token)
            => (result[t] = "ValueError" /\ ~netCalled[t])


\* C11: on a version-3 client a pricing entry point called with fee=None
\* raises InvalidFeeTier and has issued no remote call.
C11_FeeRequiredV3 ==
    (version = 3 /\ pureCall.fn \in QuoteFns /\ pureCall.fee = None)
        => (pureRet.err = InvalidFeeTier /\ pureRet.calls = << >>)

\* C15: on a version-3 client get_price_input and get_price_output with a
\* non-empty custom route fail with an error and issue no quoter call, for
\* every token pair, native-coin pairs included.
C15_V3CustomRouteFails ==
    (version = 3 /\ pureCall.fn \in PriceFns
                 /\ pureCall.route \notin {None, {<< >>}})
        => (pureRet.err # "" /\ pureRet.calls = << >>)

\* C16: a v2/v3 quote with the native-coin sentinel as input or output, in
\* any representation, reaches the router or quoter with the wrapped-native
\* address in the sentinel's place: no remote call names the zero address.
C16_SentinelTranslated ==
    (version \in {2, 3} /\ pureCall.fn \in PriceFns /\ pureRet.err = ""
        /\ (is_same_address(pureCall.token0, ETH_ADDRESS_STR)
              \/ is_same_address(pureCall.token1, ETH_ADDRESS_STR))
        /\ pureCall.token0.a # pureCall.token1.a)
        => \A i \in DOMAIN pureRet.calls :
              /\ \A j \in DOMAIN pureRet.calls[i].path :
                    pureRet.calls[i].path[j].a # ETH_ADDRESS
              /\ \E j \in DOMAIN pureRet.calls[i].path :
                    pureRet.calls[i].path[j].a = WETH


\* C17: validate_fee_tier(None, version) returns the 3000 tier for version 1
\* and for version 2.
C17_DefaultTierV1V2 ==
    (pureCall.fn = "validate_fee_tier" /\ pureCall.fee = None
                                       /\ pureCall.version \in {1, 2})
        => (pureRet.err = "" /\ pureRet.value = 3000)

\* validate_fee_tier(None, 2) returned
C17_Witness ==
    /\ pureCall.fn = "validate_fee_tier"
    /\ pureCall.fee = None
    /\ pureCall.version = 2
    /\ pureRet.err = ""

\* C18: validate_fee_tier(None, 3) raises InvalidFeeTier with a message
\* containing "Explicit fee tier is required" and returns no tier.
C18_ExplicitTierV3 ==
    (pureCall.fn = "validate_fee_tier" /\ pureCall.fee = None
                                       /\ pureCall.version = 3)
        => /\ pureRet.err = InvalidFeeTier
           /\ pureRet.msg = "Explicit fee tier is required"
           /\ pureRet.value \notin FeeTier

\* validate_fee_tier(None, 3) raised
C18_Witness ==
    /\ pureCall.fn = "validate_fee_tier"
    /\ pureCall.fee = None
    /\ pureCall.version = 3
    /\ pureRet.err # ""

\* C19: for an explicit fee, validate_fee_tier(fee, 3) returns the fee when it
\* is one of 100, 500, 3000, 10000 and raises InvalidFeeTier otherwise;
\* validate_fee_tier(fee, 1) and (fee, 2) raise InvalidFeeTier for every fee
\* other than 3000.
C19_TierSetPerVersion ==
    (pureCall.fn = "validate_fee_tier" /\ pureCall.fee # None)
        => LET fee == CHOOSE f \in pureCall.fee : TRUE
           IN  /\ (pureCall.version = 3 /\ fee \in {100, 500, 3000, 10000})
                      => (pureRet.err = "" /\ pureRet.value = fee)
               /\ (pureCall.version = 3 /\ fee \notin {100, 500, 3000, 10000})
                      => pureRet.err = InvalidFeeTier
               /\ (pureCall.version \in {1, 2} /\ fee # 3000)
                      => pureRet.err = InvalidFeeTier

\* a v3 tier other than 3000 was refused for version 2
C19_Witness ==
    /\ pureCall.fn = "validate_fee_tier"
    /\ pureCall.fee = {10000}
    /\ pureCall.version = 2
    /\ pureRet.err = InvalidFeeTier


\* make_trade_output ran its body on distinct tokens and obtained a quote
\* (the v1 token-to-token quote raises)
QuotedOutputTrade ==
    /\ pureCall.fn = "make_trade_output"
    /\ pureCall.op.input_token # pureCall.op.output_token
    /\ ~(version = 1 /\ pureCall.op.input_token # ETH_ADDRESS
                     /\ pureCall.op.output_token # ETH_ADDRESS)

\* C12 as stated: make_trade_output fails with InsufficientBalance exactly
\* when the sender's balance is less than the quoted cost.
C12_BalanceAgainstQuotedCost ==
    QuotedOutputTrade
        => (pureRet.err = "InsufficientBalance"
                <=> pureReads.balance < pureReads.price)

\* C12 amended: make_trade_output fails with InsufficientBalance exactly
\* when the balance is less than int((1 + slippage) * cost), cost being the
\* quote the swap method obtains, or, for native-coin input, less than the
\* quote make_trade_output obtains first.
C12_BalanceAgainstAmountInMax ==
    QuotedOutputTrade
        => (pureRet.err = "InsufficientBalance"
                <=> \/ Trunc((100 + Slippage(pureCall.op)) * pureReads.price, 100)
                          > pureReads.balance
                    \/ /\ pureCall.op.input_token = ETH_ADDRESS
                       /\ pureReads.balance < pureReads.need)

\* the balance covers the quoted cost but not the cost with its slippage
\* margin, and the trade was refused
C12_Witness ==
    /\ QuotedOutputTrade
    /\ pureCall.op.input_token # ETH_ADDRESS
    /\ pureReads.balance >= pureReads.price
    /\ pureRet.err = "InsufficientBalance"

\* C14: every route a v2 swap carries starts with the input token and ends
\* with the output token (the wrapped native token for the native coin), has
\* no two equal consecutive entries, and goes through the wrapped native
\* token (length 3) exactly when neither endpoint is the wrapped native token.
C14_V2RouteWellFormed ==
    \A t \in Threads :
        (version = 2 /\ pc[t] = "send" /\ op[t].method \in Methods
                     /\ tx[t].fn # "approve")
            => LET first == IF op[t].input_token = ETH_ADDRESS THEN WETH
                            ELSE op[t].input_token
                   last == IF op[t].output_token = ETH_ADDRESS THEN WETH
                           ELSE op[t].output_token
                   route == tx[t].path
               IN  /\ Len(route) \in {2, 3}
                   /\ route[1] = first
                   /\ route[Len(route)] = last
                   /\ \A i \in 1 .. (Len(route) - 1) : route[i] # route[i + 1]
                   /\ Len(route) = 3 <=> (first # WETH /\ last # WETH)
                   /\ Len(route) = 3 => route[2] = WETH

\* C20: the expected output of a v1 token-to-token exact-input trade is the
\* two-leg quote in trade order: amountIn of the input token for ETH against
\* the input token's exchange, that ETH for the output token against the
\* output token's exchange (ETH reserve in, token reserve out), each leg
\* out = in * 997 * reserveOut / (reserveIn * 1000 + in * 997).
C20_V1TwoLegQuote ==
    (version = 1 /\ pureCall.fn = "make_trade" /\ pureRet.err = ""
                 /\ pureRet.fn = "tokenToTokenTransferInput")
        => LET input == pureCall.op.input_token
               output == pureCall.op.output_token
               amountIn == pureCall.op.qty
               \* leg 1: ethOut = num1 / den1
               num1 == amountIn * 997 * pureReads.ex_eth[input]
               den1 == pureReads.ex_token[input] * 1000 + amountIn * 997
               \* leg 2 on ethOut, both sides scaled by den1
               num2 == num1 * 997 * pureReads.ex_token[output]
               den2 == pureReads.ex_eth[output] * 1000 * den1 + num1 * 997
           IN  den2 # 0 /\ pureRet.guard = num2 \div den2


\* the positional argument check_approval is looking at
CheckedToken(t) ==
    IF arg[t] = 1 THEN op[t].input_token ELSE op[t].output_token

\* C13: under check_approval (make_trade, make_trade_output, add_liquidity,
\* remove_liquidity) a checked token whose allowance is below the threshold
\* gets an approve transaction, and the wrapped method is entered after an
\* approve only once that transaction is mined; a token whose allowance is
\* at or above the threshold, or the native coin, gets no approve; no
\* trade transaction exists before the wrapped method has run.
C13_ApproveBeforeBody ==
    [][ \A t \in Threads :
          /\ (pc[t] = "check_approval" /\ <<pc'[t], arg'[t]>> # <<pc[t], arg[t]>>)
                => IF CheckedToken(t) # ETH_ADDRESS /\ ~allowance[CheckedToken(t)]
                   THEN /\ tx'[t] = ApproveTx(CheckedToken(t))
                        /\ pc'[t] = "tx_params"
                   ELSE /\ tx'[t].fn # "approve"
                        /\ pc'[t] \in {"check_approval", "body"}
          /\ (pc[t] = "send" /\ tx[t].fn = "approve" /\ sent'[t] > sent[t])
                => pc'[t] = "approve_wait"
          /\ (pc[t] # "body" /\ pc'[t] = "body")
                => \/ /\ pc[t] = "check_approval"
                      /\ CheckedToken(t) = ETH_ADDRESS \/ allowance[CheckedToken(t)]
                   \/ /\ pc[t] = "approve_wait"
                      /\ tx[t].fn = "approve"
                      /\ tx[t].nonce < nodeCount
          /\ (tx'[t].fn \notin {"none", "approve"} /\ tx[t].fn \in {"none", "approve"})
                => pc[t] = "body"
      ]_vars

\* the wrapped method is entered with two approve transactions sent and
\* mined in this call
C13_Witness ==
    /\ pc[MainThread] = "body"
    /\ op[MainThread].method = "make_trade_output"
    /\ sent[MainThread] = 2
    /\ nodeCount = 2


\* C21: a v1 token-to-token trade never ends in an unhandled arithmetic error
\* (a division by zero) nor in any other unplanned exception: it is sent, or
\* it fails with InsufficientBalance, and it fails with InsufficientBalance
\* when the output token's exchange holds less than the requested amount.
C21_V1TinyReserveInsufficientBalance ==
    (/\ version = 1
     /\ pureCall.fn \in {"make_trade", "make_trade_output"}
     /\ pureCall.op.input_token \in ERC20
     /\ pureCall.op.output_token \in ERC20
     /\ pureCall.op.input_token # pureCall.op.output_token)
        => /\ pureRet.err \in {"", "InsufficientBalance"}
           /\ pureReads.ex_token[pureCall.op.output_token] < pureCall.op.qty
                 => pureRet.err = "InsufficientBalance"

\* C22: find_tick_from_bitmap looks at every word index of the tier's range,
\* both ends included: it returns False only when every word of the range is
\* zero, and otherwise the tick derived from the highest (left) or lowest
\* (right) index holding a non-zero word, a word with a single bit included.
C22_ScanFindsExtremeNonZeroWord ==
    pureCall.fn = "find_tick_from_bitmap"
        => LET fee == pureCall.fee
               lo == tick_bitmap_range[fee][1]
               hi == tick_bitmap_range[fee][2]
               nonzero == {w \in DOMAIN pureReads :
                              w \in lo .. hi /\ tickBitmap(pureReads, w) # 0}
               highest == CHOOSE w \in nonzero : \A u \in nonzero : u <= w
               lowest == CHOOSE w \in nonzero : \A u \in nonzero : u >= w
           IN  /\ pureRet = TickFalse <=> nonzero = {}
               /\ (nonzero # {} /\ pureCall.left)
                     => pureRet = get_max_tick_from_wordpos(highest,
                                      bin(tickBitmap(pureReads, highest)),
                                      tick_spacing[fee], fee)
               /\ (nonzero # {} /\ ~pureCall.left)
                     => pureRet = get_min_tick_from_wordpos(lowest,
                                      tick_spacing[fee], fee)

\* C25: nearest_tick is idempotent: for every fee tier and every tick it
\* accepts, applying it to its own result gives that result again.
C25_NearestTickIdempotent ==
    (pureCall.fn = "nearest_tick" /\ pureRet.err = "")
        => pureReads = pureRet

\* a tick that is not a multiple of the spacing was rounded, and rounding the
\* result again changed nothing
C25_Witness ==
    /\ pureCall.fn = "nearest_tick"
    /\ pureCall.fee = TIER_3000
    /\ pureRet.err = ""
    /\ pureRet.tick # pureCall.tick
    /\ pureReads = pureRet

\* C26: every tick that is a multiple of the tier's spacing and lies inside
\* [get_min_tick(fee), get_max_tick(fee)] is returned unchanged.
C26_MultipleUnchanged ==
    (/\ pureCall.fn = "nearest_tick"
     /\ pureCall.tick % tick_spacing[pureCall.fee] = 0
     /\ get_min_tick(pureCall.fee) <= pureCall.tick
     /\ pureCall.tick <= get_max_tick(pureCall.fee))
        => pureRet = TickReturn(pureCall.tick)

\* the lowest valid tick of the 0.3% tier was given and came back
C26_Witness ==
    /\ pureCall.fn = "nearest_tick"
    /\ pureCall.fee = TIER_3000
    /\ pureCall.tick = get_min_tick(TIER_3000)
    /\ pureRet = TickReturn(pureCall.tick)

\* C27: nearest_tick fails fast: for every tick below get_min_tick(fee) or
\* above get_max_tick(fee), the ticks between MIN_TICK / MAX_TICK and the
\* spacing-aligned bounds included, it raises the assertion error and
\* returns no tick.
C27_OutOfRangeRaises ==
    (/\ pureCall.fn = "nearest_tick"
     /\ \/ pureCall.tick < get_min_tick(pureCall.fee)
        \/ pureCall.tick > get_max_tick(pureCall.fee))
        => pureRet = TickRaise("AssertionError")

\* a tick between MIN_TICK and the tier's aligned lower bound was refused
C27_Witness ==
    /\ pureCall.fn = "nearest_tick"
    /\ pureCall.fee = TIER_3000
    /\ MIN_TICK <= pureCall.tick
    /\ pureCall.tick < get_min_tick(TIER_3000)
    /\ pureRet.err = "AssertionError"

\* C29: for every fee tier and every word index of _tick_bitmap_range, the
\* bounds included, get_min_tick_from_wordpos and get_max_tick_from_wordpos
\* return a tick without raising.
C29_WordposTickNeverRaises ==
    pureCall.fn \in {"get_min_tick_from_wordpos", "get_max_tick_from_wordpos"}
        => pureRet.err = "" /\ pureRet.found

\* C30: get_tvl_in_pool fails with "Error finding max tick" / "Error finding
\* min tick" only when the scan returned False: every tick the scan returns,
\* tick 0 included, is accepted.
C30_TvlAssertsOnlyOnFalse ==
    pureCall.fn = "get_tvl_in_pool"
        => /\ pureRet.err = "Error finding max tick"
                 => ~pureRet._max_tick.found
           /\ pureRet.err = "Error finding min tick"
                 => ~pureRet._min_tick.found

\* C24: address parsing (_str_to_addr, _validate_address) rejects every string
\* that is not "0x" followed by exactly 40 hex digits: no string of another
\* length or with another character is turned into an Address.
C24_MalformedAddressRejected ==
    (/\ pureCall.fn \in {"_str_to_addr", "_validate_address"}
     /\ ~(pureCall.s.prefix = "0x" /\ pureCall.s.n = 40 /\ pureCall.s.hex))
        => pureRet.err # ""

\* C28: in every v2 swap (exact input and exact output, all three
\* topologies, a token-to-token trade with WETH as an endpoint included) the
\* slippage guard comes from a quote over exactly the token path that is
\* submitted to the router.
C28_QuotePathIsSwapPath ==
    (/\ version = 2
     /\ pureCall.fn \in Methods
     /\ "calls" \in DOMAIN pureReads
     /\ pureRet.err = "")
        => /\ pureReads.err = ""
           /\ Len(pureReads.calls) = 1
           /\ accounts(pureReads.calls[1].path) = pureRet.path

\* C23 as stated: when close_position has stopped after its step k (it
\* returned, raised or crashed), the position on chain reflects exactly the
\* steps 1..k: every transaction that was submitted has been mined and has
\* taken effect, and none beyond them was submitted.
C23_StoppedReflectsExactlySteps ==
    closePc \in {"stopped", "done"}
        => /\ Len(minedTxs) = Len(closeTxs)
           /\ \A i \in DOMAIN minedTxs : minedTxs[i].status = "ok"

\* C23, amended: close_position submits decreaseLiquidity, then collect, then
\* burn, each only after the previous transaction was mined (its receipt
\* obtained), and not atomically: at any moment, also after it has stopped,
\* the submitted transactions are the first k of the three and the mined ones
\* are the first k or k - 1 of those, each of them applied or reverted.
C23_StepsInOrderNotAtomic ==
    /\ Len(closeTxs) <= Len(CloseSteps)
    /\ fns(closeTxs) = SubSeq(CloseSteps, 1, Len(closeTxs))
    /\ Len(minedTxs) <= Len(closeTxs)
    /\ Len(closeTxs) <= Len(minedTxs) + 1
    /\ fns(minedTxs) = SubSeq(CloseSteps, 1, Len(minedTxs))
    /\ closePc = "done"
          => Len(minedTxs) = Len(CloseSteps) /\ closeResult = "receipt"

\* close_position died after its first step: the liquidity is removed on
\* chain, nothing was collected or burned, and no later step was submitted
C23_Witness ==
    /\ closePc = "stopped"
    /\ closeResult = "crash"
    /\ fns(closeTxs) = <<"decreaseLiquidity">>
    /\ minedTxs = <<[fn |-> "decreaseLiquidity", status |-> "ok"]>>
====
